---- MODULE Spec2Model ----
(***************************************************************************)
(* Model of calc_E_score.py: the composite E-score pipeline.               *)
(*                                                                         *)
(* Numbers.  The script computes in IEEE doubles.  A double is modelled as *)
(* an exact fraction [n, d] in lowest terms with d > 0, plus the two       *)
(* special values the script can produce: +inf = [1, 0] and NaN = [0, 0].  *)
(* Rounding of the binary arithmetic is not modelled; the special values   *)
(* and their propagation are.                                              *)
(*                                                                         *)
(* P-values.  A P-value cell is an integer code: k >= 0 stands for the     *)
(* number 10^(-k), PZero for the number 0 and PNaN for a missing cell.     *)
(***************************************************************************)
EXTENDS Integers, Sequences, FiniteSets, TLC

\* ------------------------------------------------------------------ bounds
MaxTraits == 3
MaxRows == 2

\* ------------------------------------------------- doubles as fractions
Abs(x) == IF x < 0 THEN -x ELSE x

RECURSIVE GCD(_, _)
GCD(a, b) == IF b = 0 THEN a ELSE GCD(b, a % b)

Frac(n, d) == LET g == GCD(Abs(n), d) IN [n |-> n \div g, d |-> d \div g]
FInt(k) == [n |-> k, d |-> 1]
FInf == [n |-> 1, d |-> 0]
FNaN == [n |-> 0, d |-> 0]
IsNaN(x) == x.d = 0 /\ x.n = 0
IsInf(x) == x.d = 0 /\ x.n = 1
IsFinite(x) == x.d > 0

FAdd(a, b) ==
    IF IsNaN(a) \/ IsNaN(b) THEN FNaN
    ELSE IF IsInf(a) \/ IsInf(b) THEN FInf
    ELSE Frac(a.n * b.d + b.n * a.d, a.d * b.d)

FMul(a, b) ==
    IF IsNaN(a) \/ IsNaN(b) THEN FNaN
    ELSE IF IsInf(a) \/ IsInf(b)
         THEN IF (IsFinite(a) /\ a.n = 0) \/ (IsFinite(b) /\ b.n = 0) THEN FNaN ELSE FInf
    ELSE Frac(a.n * b.n, a.d * b.d)

FDiv(a, b) ==
    IF IsNaN(a) \/ IsNaN(b) THEN FNaN
    ELSE IF IsInf(b) THEN (IF IsInf(a) THEN FNaN ELSE FInt(0))
    ELSE IF IsInf(a) THEN FInf
    ELSE IF b.n = 0 THEN (IF a.n = 0 THEN FNaN ELSE FInf)
    ELSE IF b.n < 0 THEN Frac(-(a.n * b.d), a.d * (-b.n))
    ELSE Frac(a.n * b.d, a.d * b.n)

\* a > b as the floating-point comparison: false when either side is NaN
FGreater(a, b) ==
    IF IsNaN(a) \/ IsNaN(b) THEN FALSE
    ELSE IF IsInf(b) THEN FALSE
    ELSE IF IsInf(a) THEN TRUE
    ELSE a.n * b.d > b.n * a.d

\* Python's max(0, x): x when x > 0, else the first argument 0 (also for NaN)
PyMax0(x) == IF FGreater(x, FInt(0)) THEN x ELSE FInt(0)

\* ---------------------------------------------------------- P-value cells
PZero == -1
PNaN == -2
FLOOR_EXP == 300

\* scipy.stats.chi2.isf(p, 1), to one decimal, at the P-values of the model:
\* isf(1) = 0, isf(0.1) = 2.7, isf(0.01) = 6.6, isf(0) = inf, isf(nan) = nan
Chi2Isf(p) ==
    CASE p = PNaN -> FNaN
      [] p = PZero -> FInf
      [] p = 0 -> FInt(0)
      [] p = 1 -> Frac(27, 10)
      [] p = 2 -> Frac(66, 10)
      [] OTHER -> Frac(46 * p - 30, 10)

\* np.maximum(p, 1e-300): NaN stays NaN, anything below the floor becomes 1e-300
FloorP(p) ==
    IF p = PNaN THEN PNaN
    ELSE IF p = PZero \/ p > FLOOR_EXP THEN FLOOR_EXP
    ELSE p

\* -np.log10(p) of a floored P-value
NegLog10(p) == IF p = PNaN THEN FNaN ELSE FInt(p)


\* pandas Series.mean(): NaN cells are skipped; no cell left gives NaN
RECURSIVE SumSkipNaN(_)
SumSkipNaN(s) ==
    IF s = <<>> THEN FInt(0)
    ELSE IF IsNaN(Head(s)) THEN SumSkipNaN(Tail(s))
    ELSE FAdd(Head(s), SumSkipNaN(Tail(s)))

RECURSIVE CountNotNaN(_)
CountNotNaN(s) ==
    IF s = <<>> THEN 0
    ELSE (IF IsNaN(Head(s)) THEN 0 ELSE 1) + CountNotNaN(Tail(s))

SeriesMean(s) ==
    IF CountNotNaN(s) = 0 THEN FNaN ELSE FDiv(SumSkipNaN(s), FInt(CountNotNaN(s)))

\* ------------------------------------------------------- command line, files
\* args.p_col and args.snp_col at their defaults
p_col == "P"
snp_col == "SNP"

\* a path is its directory, stem and extension; Path(filepath).stem keeps the stem
Stems == <<"A", "B", "C", "D", "E">>
MkPath(dir, stem) == [dir |-> dir, stem |-> stem, ext |-> "txt"]
PathStem(path) == path.stem

\* f"P_{trait_name}", and the suffixes pd.merge gives to overlapping columns
PCol(name) == <<"P_", name>>
Suffixed(col, suffix) == col \o <<suffix>>
KeyCol == <<snp_col>>
EScoreCol == <<"E_score">>

SNPs == {"rs1", "rs2"}
PVals == {0, 2, PZero, PNaN}

RECURSIVE SeqsUpTo(_, _)
SeqsUpTo(S, k) ==
    IF k = 0 THEN {<<>>}
    ELSE LET shorter == SeqsUpTo(S, k - 1)
         IN shorter \cup {Append(s, x) : s \in {t \in shorter : Len(t) = k - 1}, x \in S}

Unreadable == [readable |-> FALSE, cols |-> {}, rows |-> <<>>]
Table(cols, rows) == [readable |-> TRUE, cols |-> cols, rows |-> rows]

\* files with the two required columns, up to MaxRows rows
RichRows == [SNP : SNPs, P : {0, 2}] \cup [SNP : {"rs1"}, P : {PZero, PNaN}]
RichFiles == {Table({snp_col, p_col}, rows) : rows \in SeqsUpTo(RichRows, MaxRows)}

\* files of at most one row: unreadable, a column missing, a CHI2 column supplied
SmallFiles ==
    {Unreadable,
     Table({snp_col}, <<[SNP |-> "rs1"]>>),
     Table({p_col}, <<[P |-> 2]>>),
     Table({snp_col, p_col}, <<>>)}
    \cup {Table({snp_col, p_col}, <<[SNP |-> "rs1", P |-> p]>>) : p \in PVals}
    \cup {Table({snp_col, p_col}, <<[SNP |-> "rs2", P |-> 2]>>)}
    \cup {Table({snp_col, p_col, "CHI2"}, <<[SNP |-> "rs1", P |-> p, CHI2 |-> c]>>) :
             p \in {2, PZero}, c \in {FInt(3), FInt(0)}}

\* the paths of an input of n files: one file per trait A, B, ...; the second path
\* may instead repeat the first one, or name another file of the same stem
CanonPaths(n) == [i \in 1..n |-> MkPath("d1", Stems[i])]
PathLists(n) ==
    {CanonPaths(n)} \cup
    (IF n >= 2
     THEN {[CanonPaths(n) EXCEPT ![2] = MkPath("d1", "A")],
           [CanonPaths(n) EXCEPT ![2] = MkPath("d2", "A")]}
     ELSE {})

Range(s) == {s[i] : i \in 1..Len(s)}

VARIABLES
    argv_input,          \* args.input: the list of paths
    fs,                  \* the content of each file named in args.input
    pc,                  \* position of main
    loaded_data,         \* list of {name, df, weight_score}
    total_weight_denom,
    merged_df,           \* what reduce has produced so far: a dict or a DataFrame
    k,                   \* next element reduce will fold
    j,                   \* next element of the scoring loop
    normalized_w,        \* normalized_w of each finished scoring iteration
    output,              \* rows written to args.output
    written,             \* number of times args.output was written
    err,                 \* what ended the run early
    exit_code

vars == <<argv_input, fs, pc, loaded_data, total_weight_denom, merged_df, k, j,
          normalized_w, output, written, err, exit_code>>

NoFrame == [kind |-> "none"]
Running == -1

InitState ==
    /\ pc = "load"
    /\ loaded_data = <<>>
    /\ total_weight_denom = FInt(0)
    /\ merged_df = NoFrame
    /\ k = 0
    /\ j = 0
    /\ normalized_w = <<>>
    /\ output = <<>>
    /\ written = 0
    /\ err = "none"
    /\ exit_code = Running

Init ==
    /\ \/ \E n \in 1..2 :
            /\ argv_input = CanonPaths(n)
            /\ fs \in [Range(CanonPaths(n)) -> RichFiles]
       \/ \E n \in 1..MaxTraits : \E paths \in PathLists(n) :
            /\ argv_input = paths
            /\ fs \in [Range(paths) -> SmallFiles]
    /\ InitState

\* ------------------------------------------------------------- the loader
Column(rows, c) == [i \in 1..Len(rows) |-> rows[i][c]]

\* lines 81-87: the CHI2 column, derived from P when the file has none, and its mean
Chi2Column(file) ==
    IF "CHI2" \in file.cols THEN Column(file.rows, "CHI2")
    ELSE [i \in 1..Len(file.rows) |-> Chi2Isf(file.rows[i][p_col])]

MeanChi2(file) == SeriesMean(Chi2Column(file))

\* the numerator without its clamp at 0
WeightNumeratorUnclamped(file) == FAdd(MeanChi2(file), FInt(-1))

\* line 91
WeightNumerator(file) == PyMax0(FAdd(MeanChi2(file), FInt(-1)))

\* load_and_calculate_weight raises inside its try block
LoadRaises(file) == ~file.readable \/ p_col \notin file.cols

\* lines 122-125: keep the SNP and P columns, rename P to P_<trait>
TraitFrame(file, name) ==
    [cols |-> <<KeyCol, PCol(name)>>,
     rows |-> [i \in 1..Len(file.rows) |-> <<file.rows[i][snp_col], file.rows[i][p_col]>>]]

Exit(code, why) ==
    /\ pc' = "exit"
    /\ exit_code' = code
    /\ err' = why

\* one iteration of the loading loop that reaches line 132
LoadTrait ==
    /\ pc = "load"
    /\ Len(loaded_data) < Len(argv_input)
    /\ LET path == argv_input[Len(loaded_data) + 1]
           file == fs[path]
       IN /\ ~LoadRaises(file)
          /\ snp_col \in file.cols
          /\ loaded_data' = Append(loaded_data,
                 [name |-> PathStem(path),
                  df |-> TraitFrame(file, PathStem(path)),
                  weight_score |-> WeightNumerator(file)])
          /\ total_weight_denom' = FAdd(total_weight_denom, WeightNumerator(file))
    /\ UNCHANGED <<argv_input, fs, pc, merged_df, k, j, normalized_w, output, written,
                   err, exit_code>>

\* the loader's exception handler ending the process with exit code 0
LoadFailsExitZero ==
    /\ pc = "load"
    /\ Len(loaded_data) < Len(argv_input)
    /\ LET file == fs[argv_input[Len(loaded_data) + 1]]
       IN /\ LoadRaises(file)
          /\ Exit(0, IF file.readable THEN "SchemaError" ELSE "IOError")
    /\ UNCHANGED <<argv_input, fs, loaded_data, total_weight_denom, merged_df, k, j,
                   normalized_w, output, written>>

\* lines 98-100: any exception in the loader is printed and the process exits 1
LoadFails ==
    /\ pc = "load"
    /\ Len(loaded_data) < Len(argv_input)
    /\ LET file == fs[argv_input[Len(loaded_data) + 1]]
       IN /\ LoadRaises(file)
          /\ Exit(1, IF file.readable THEN "SchemaError" ELSE "IOError")
    /\ UNCHANGED <<argv_input, fs, loaded_data, total_weight_denom, merged_df, k, j,
                   normalized_w, output, written>>

\* line 122 on a file without the SNP column: an uncaught KeyError ends the process
LoadKeyError ==
    /\ pc = "load"
    /\ Len(loaded_data) < Len(argv_input)
    /\ LET file == fs[argv_input[Len(loaded_data) + 1]]
       IN /\ ~LoadRaises(file)
          /\ snp_col \notin file.cols
          /\ Exit(1, "KeyError")
    /\ UNCHANGED <<argv_input, fs, loaded_data, total_weight_denom, merged_df, k, j,
                   normalized_w, output, written>>

\* lines 134-136: no trait shows inflation
DenomZero ==
    /\ pc = "load"
    /\ Len(loaded_data) = Len(argv_input)
    /\ total_weight_denom = FInt(0)
    /\ Exit(1, "DegenerateWeights")
    /\ UNCHANGED <<argv_input, fs, loaded_data, total_weight_denom, merged_df, k, j,
                   normalized_w, output, written>>

\* line 144: reduce starts from the first element of loaded_data, a dict
DenomOk ==
    /\ pc = "load"
    /\ Len(loaded_data) = Len(argv_input)
    /\ total_weight_denom # FInt(0)
    /\ pc' = "merge"
    /\ merged_df' = [kind |-> "dict", item |-> loaded_data[1]]
    /\ k' = 2
    /\ UNCHANGED <<argv_input, fs, loaded_data, total_weight_denom, j, normalized_w,
                   output, written, err, exit_code>>

\* ------------------------------------------------------------------ the join
HasCol(cols, c) == \E i \in 1..Len(cols) : cols[i] = c
ColIndex(cols, c) == CHOOSE i \in 1..Len(cols) : cols[i] = c
Without(s, i) == [n \in 1..(Len(s) - 1) |-> IF n < i THEN s[n] ELSE s[n + 1]]

\* the rows of an inner join: the left rows in their order, each with every right row
\* of the same key, in the right rows' order
RECURSIVE JoinRows(_, _, _, _)
JoinRows(lrows, rrows, lk, rk) ==
    IF lrows = <<>> THEN <<>>
    ELSE LET l == Head(lrows)
             m == SelectSeq(rrows, LAMBDA r : r[rk] = l[lk])
         IN [i \in 1..Len(m) |-> l \o Without(m[i], rk)] \o JoinRows(Tail(lrows), rrows, lk, rk)

\* a left join: a left row without partner is kept, its right cells missing
RECURSIVE LeftJoinRows(_, _, _, _)
LeftJoinRows(lrows, rrows, lk, rk) ==
    IF lrows = <<>> THEN <<>>
    ELSE LET l == Head(lrows)
             m == SelectSeq(rrows, LAMBDA r : r[rk] = l[lk])
         IN (IF m = <<>> THEN <<l \o <<PNaN>>>>
             ELSE [i \in 1..Len(m) |-> l \o Without(m[i], rk)])
            \o LeftJoinRows(Tail(lrows), rrows, lk, rk)

MergeLeft(left, right, key) ==
    [kind |-> "frame",
     cols |-> left.cols \o Without(right.cols, ColIndex(right.cols, key)),
     rows |-> LeftJoinRows(left.rows, right.rows,
                           ColIndex(left.cols, key), ColIndex(right.cols, key))]

\* pd.merge(left, right, on=key), how='inner': a column other than the key that both
\* frames have is renamed <col>_x on the left and <col>_y on the right
Merge(left, right, key) ==
    LET lk == ColIndex(left.cols, key)
        rk == ColIndex(right.cols, key)
        lcols == [i \in 1..Len(left.cols) |->
                    IF i # lk /\ HasCol(right.cols, left.cols[i])
                    THEN Suffixed(left.cols[i], "_x") ELSE left.cols[i]]
        rcols == [i \in 1..Len(right.cols) |->
                    IF i # rk /\ HasCol(left.cols, right.cols[i])
                    THEN Suffixed(right.cols[i], "_y") ELSE right.cols[i]]
    IN [kind |-> "frame",
        cols |-> lcols \o Without(rcols, rk),
        rows |-> JoinRows(left.rows, right.rows, lk, rk)]

\* line 145, the lambda on a left operand that has a 'df' entry
MergeStep ==
    /\ pc = "merge"
    /\ k <= Len(loaded_data)
    /\ merged_df.kind = "dict"
    /\ merged_df' = Merge(merged_df.item.df, loaded_data[k].df, KeyCol)
    /\ k' = k + 1
    /\ UNCHANGED <<argv_input, fs, pc, loaded_data, total_weight_denom, j, normalized_w,
                   output, written, err, exit_code>>

\* line 145, the lambda on the DataFrame an earlier step returned: left['df'] is a
\* column lookup and the frame has no such column
MergeKeyError ==
    /\ pc = "merge"
    /\ k <= Len(loaded_data)
    /\ merged_df.kind = "frame"
    /\ ~HasCol(merged_df.cols, <<"df">>)
    /\ Exit(1, "KeyError")
    /\ UNCHANGED <<argv_input, fs, loaded_data, total_weight_denom, merged_df, k, j,
                   normalized_w, output, written>>

\* lines 149-153: reduce has returned; merged_df['E_score'] = 0.0
InitScore ==
    /\ pc = "merge"
    /\ k > Len(loaded_data)
    /\ merged_df' =
         IF merged_df.kind = "dict"
         THEN [kind |-> "dict", item |-> merged_df.item, E_score |-> FInt(0)]
         ELSE [kind |-> "frame",
               cols |-> Append(merged_df.cols, EScoreCol),
               rows |-> [i \in 1..Len(merged_df.rows) |-> Append(merged_df.rows[i], FInt(0))]]
    /\ pc' = "score"
    /\ j' = 1
    /\ UNCHANGED <<argv_input, fs, loaded_data, total_weight_denom, k, normalized_w,
                   output, written, err, exit_code>>

\* ------------------------------------------------------------------ scoring
\* merged_df[p_col] succeeds: a dict has the keys name, df, weight_score, E_score only
HasPCol(m, col) == m.kind = "frame" /\ HasCol(m.cols, col)

\* lines 168-169 on one row
AddContribution(row, pi, ei, w) ==
    [row EXCEPT ![ei] = FAdd(row[ei], FMul(NegLog10(FloorP(row[pi])), w))]

\* lines 157-169, one iteration
ScoreStep ==
    /\ pc = "score"
    /\ j <= Len(loaded_data)
    /\ LET item == loaded_data[j]
           w == FDiv(item.weight_score, total_weight_denom)
           col == PCol(item.name)
       IN /\ HasPCol(merged_df, col)
          /\ normalized_w' = Append(normalized_w, w)
          /\ merged_df' =
               [merged_df EXCEPT !.rows =
                  [i \in 1..Len(merged_df.rows) |->
                     AddContribution(merged_df.rows[i], ColIndex(merged_df.cols, col),
                                     ColIndex(merged_df.cols, EScoreCol), w)]]
    /\ j' = j + 1
    /\ UNCHANGED <<argv_input, fs, pc, loaded_data, total_weight_denom, k, output, written,
                   err, exit_code>>

\* line 168: merged_df has no column (or key) P_<trait>
ScoreKeyError ==
    /\ pc = "score"
    /\ j <= Len(loaded_data)
    /\ ~HasPCol(merged_df, PCol(loaded_data[j].name))
    /\ Exit(1, "KeyError")
    /\ UNCHANGED <<argv_input, fs, loaded_data, total_weight_denom, merged_df, k, j,
                   normalized_w, output, written>>

\* --------------------------------------------------------------- the output
\* row a goes strictly before row b when sorting by score, descending, NaN last
Before(a, b) == ~IsNaN(a[2]) /\ (IsNaN(b[2]) \/ FGreater(a[2], b[2]))

RECURSIVE InsertRow(_, _)
InsertRow(x, s) ==
    IF s = <<>> THEN <<x>>
    ELSE IF Before(x, Head(s)) THEN <<x>> \o s
    ELSE <<Head(s)>> \o InsertRow(x, Tail(s))

\* sort_values(by='E_score', ascending=False): rows of equal score keep the order
\* they have in the merged table
RECURSIVE SortValues(_)
SortValues(rows) ==
    IF rows = <<>> THEN <<>>
    ELSE InsertRow(rows[Len(rows)], SortValues(SubSeq(rows, 1, Len(rows) - 1)))

\* float_format='%.6f': the score in millionths, rounded half to even; a NaN score is
\* written as an empty field
EmptyField == -1
InfField == -2
RECURSIVE Digits(_, _, _, _)
Digits(q, r, d, places) ==
    IF places = 0 THEN [q |-> q, r |-> r]
    ELSE Digits(10 * q + (10 * r) \div d, (10 * r) % d, d, places - 1)

Format6(x) ==
    IF IsNaN(x) THEN EmptyField
    ELSE IF IsInf(x) THEN InfField
    ELSE LET t == Digits(x.n \div x.d, x.n % x.d, x.d, 6)
         IN IF 2 * t.r > x.d \/ (2 * t.r = x.d /\ t.q % 2 = 1) THEN t.q + 1 ELSE t.q

\* line 174
OutputFrame(m) ==
    SortValues([i \in 1..Len(m.rows) |->
                  <<m.rows[i][ColIndex(m.cols, KeyCol)], m.rows[i][ColIndex(m.cols, EScoreCol)]>>])

\* line 177
ToCsv(rows) == [i \in 1..Len(rows) |-> <<rows[i][1], Format6(rows[i][2])>>]

\* lines 174-179; with at least one input path the scoring loop has already
\* failed on a dict, so merged_df is a DataFrame here
SaveResults ==
    /\ pc = "score"
    /\ j > Len(loaded_data)
    /\ merged_df.kind = "frame"
    /\ output' = ToCsv(OutputFrame(merged_df))
    /\ written' = written + 1
    /\ Exit(0, "none")
    /\ UNCHANGED <<argv_input, fs, loaded_data, total_weight_denom, merged_df, k, j,
                   normalized_w>>

\* line 177 raises: args.output cannot be opened for writing
SaveFails ==
    /\ pc = "score"
    /\ j > Len(loaded_data)
    /\ merged_df.kind = "frame"
    /\ Exit(1, "IOError")
    /\ UNCHANGED <<argv_input, fs, loaded_data, total_weight_denom, merged_df, k, j,
                   normalized_w, output, written>>

Next ==
    \/ LoadTrait
    \/ LoadFails
    \/ LoadKeyError
    \/ DenomZero
    \/ DenomOk
    \/ MergeStep
    \/ MergeKeyError
    \/ InitScore
    \/ ScoreStep
    \/ ScoreKeyError
    \/ SaveResults
    \/ SaveFails

Spec == Init /\ [][Next]_vars

\* ======================================================================
\* Properties
\* ======================================================================
NumTraits == Len(argv_input)
FileAt(i) == fs[argv_input[i]]
Traits == 1..NumTraits

SchemaValid(f) == f.readable /\ {snp_col, p_col} \subseteq f.cols
AllSchemaValid == \A t \in Traits : SchemaValid(FileAt(t))
IdsOf(f) == {f.rows[r][snp_col] : r \in 1..Len(f.rows)}
UniqueIds(f) ==
    \A a, b \in 1..Len(f.rows) : a # b => f.rows[a][snp_col] # f.rows[b][snp_col]
MissingP(f) == \E r \in 1..Len(f.rows) : f.rows[r][p_col] = PNaN
PInUnitInterval(f) == \A r \in 1..Len(f.rows) : f.rows[r][p_col] >= 0
Inflated(f) == FGreater(MeanChi2(f), FInt(1))

\* the identifiers present in every input file
CommonIds == {v \in SNPs : \A t \in Traits : v \in IdsOf(FileAt(t))}
OutputIds == {output[i][1] : i \in 1..Len(output)}

\* schema-valid files, unique identifiers, P-values in (0, 1], some trait inflated
ValidInput ==
    /\ AllSchemaValid
    /\ \A t \in Traits : UniqueIds(FileAt(t)) /\ PInUnitInterval(FileAt(t))
    /\ \E t \in Traits : Inflated(FileAt(t))

Succeeded == pc = "exit" /\ exit_code = 0
Failed == pc = "exit" /\ exit_code # 0

\* ----------------------------------------------------------------------
\* C1: whenever an output file has been written, the set of variant identifiers
\* in it is exactly the intersection of the identifier sets of all input files.
C1_JoinExact == written > 0 => OutputIds = CommonIds

\* an output was written in which one identifier is kept and another, present in
\* only one of the files, is dropped
C1_Witness ==
    /\ written > 0
    /\ OutputIds # {}
    /\ \E t \in Traits : IdsOf(FileAt(t)) \ CommonIds # {}

\* ----------------------------------------------------------------------
\* C2: for any number n >= 1 of valid input files the run ends successfully with
\* one output row per common variant (the destination being writable).
C2_AnyNumberOfTraits ==
    (ValidInput /\ pc = "exit" /\ err # "IOError") =>
        /\ exit_code = 0
        /\ written = 1
        /\ Len(output) = Cardinality(CommonIds)

\* ----------------------------------------------------------------------
\* C3: every emitted score is the number sum_t weight(t) * -log10(max(P(t,v), 1e-300)),
\* written to six decimals, for every common variant v whose P-value is present
\* in every trait (P = 0 included, contributing 300 * weight(t)).
RefTotal == LET S[i \in 0..NumTraits] ==
                    IF i = 0 THEN FInt(0) ELSE FAdd(S[i - 1], WeightNumerator(FileAt(i)))
            IN S[NumTraits]
RefWeight(t) == FDiv(WeightNumerator(FileAt(t)), RefTotal)
PValueOf(t, v) ==
    LET f == FileAt(t) IN f.rows[CHOOSE r \in 1..Len(f.rows) : f.rows[r][snp_col] = v][p_col]
RefTerm(p) ==
    IF p = PZero \/ p > FLOOR_EXP THEN FInt(FLOOR_EXP) ELSE FInt(p)
RefScore(v) ==
    LET S[i \in 0..NumTraits] ==
            IF i = 0 THEN FInt(0)
            ELSE FAdd(S[i - 1], FMul(RefWeight(i), RefTerm(PValueOf(i, v))))
    IN S[NumTraits]
WellDefinedP(v) ==
    /\ v \in CommonIds
    /\ \A t \in Traits :
         /\ Cardinality({r \in 1..Len(FileAt(t).rows) : FileAt(t).rows[r][snp_col] = v}) = 1
         /\ PValueOf(t, v) # PNaN

NoMissingNoDuplicate ==
    /\ AllSchemaValid
    /\ \A t \in Traits : UniqueIds(FileAt(t)) /\ ~MissingP(FileAt(t))

C3_ScoreFormula ==
    (written > 0 /\ NoMissingNoDuplicate) =>
        \A i \in 1..Len(output) :
            WellDefinedP(output[i][1]) =>
                /\ output[i][2] >= 0
                /\ output[i][2] = Format6(RefScore(output[i][1]))

\* The same formula holds in every run whose total denominator is finite.
ScoreFormulaWhenFinite ==
    (written > 0 /\ NoMissingNoDuplicate /\ IsFinite(total_weight_denom)) =>
        \A i \in 1..Len(output) :
            /\ output[i][2] >= 0
            /\ output[i][2] = Format6(RefScore(output[i][1]))

\* ----------------------------------------------------------------------
\* C4: the emitted rows are in descending order of score, and rows of equal score
\* are in ascending order of variant identifier.
IdRank(v) == IF v = "rs1" THEN 1 ELSE 2

C4_OutputOrder ==
    (written > 0 /\ ValidInput) =>
        \A a, b \in 1..Len(output) :
            (a < b /\ output[a][2] >= 0 /\ output[b][2] >= 0) =>
                \/ output[a][2] > output[b][2]
                \/ output[a][2] = output[b][2] /\ IdRank(output[a][1]) <= IdRank(output[b][1])

\* ----------------------------------------------------------------------
\* C5: whenever the total denominator is nonzero, every normalized weight is the
\* trait's numerator over the total of all traits and lies in [0, 1], and the
\* weights of all traits sum to 1.
WeightSum == LET S[i \in 0..Len(normalized_w)] ==
                     IF i = 0 THEN FInt(0) ELSE FAdd(S[i - 1], normalized_w[i])
             IN S[Len(normalized_w)]

C5_WeightsNormalized ==
    total_weight_denom # FInt(0) =>
        /\ \A t \in 1..Len(normalized_w) :
              /\ IsFinite(normalized_w[t])
              /\ ~FGreater(FInt(0), normalized_w[t])
              /\ ~FGreater(normalized_w[t], FInt(1))
              /\ normalized_w[t] = RefWeight(t)
        /\ Len(normalized_w) = NumTraits => WeightSum = FInt(1)

\* The same statement holds whenever the total denominator is also finite.
WeightsNormalizedWhenFinite ==
    (total_weight_denom # FInt(0) /\ IsFinite(total_weight_denom)) =>
        /\ \A t \in 1..Len(normalized_w) :
              /\ IsFinite(normalized_w[t])
              /\ ~FGreater(FInt(0), normalized_w[t])
              /\ ~FGreater(normalized_w[t], FInt(1))
              /\ FMul(normalized_w[t], RefTotal) = WeightNumerator(FileAt(t))
        /\ Len(normalized_w) = NumTraits => WeightSum = FInt(1)

\* ----------------------------------------------------------------------
\* C6: when no loaded trait has a mean chi-square above 1 the run stops with the
\* degenerate-weights error and a non-zero exit code, computes no weight and never
\* reaches the join, the scoring or the output; and that error is raised only then.
NoInflation == \A t \in Traits : ~Inflated(FileAt(t))

C6_DegenerateWeights ==
    /\ (AllSchemaValid /\ NoInflation) =>
          /\ pc \in {"load", "exit"}
          /\ merged_df = NoFrame /\ normalized_w = <<>> /\ written = 0
          /\ pc = "exit" => err = "DegenerateWeights" /\ exit_code # 0
    /\ err = "DegenerateWeights" =>
          /\ AllSchemaValid /\ NoInflation
          /\ Len(loaded_data) = NumTraits
          /\ exit_code # 0

\* the error was raised for two traits, one of them with rows
C6_Witness ==
    /\ err = "DegenerateWeights"
    /\ NumTraits >= 2
    /\ \E t \in Traits : FileAt(t).rows # <<>>

\* ----------------------------------------------------------------------
\* C7: an input file with the same variant identifier in two rows makes the run
\* fail without output (stated for an identifier that every file has).
HasDuplicateIds ==
    /\ AllSchemaValid
    /\ \A t \in Traits : PInUnitInterval(FileAt(t))
    /\ \E t \in Traits : \E a, b \in 1..Len(FileAt(t).rows) :
          /\ a # b
          /\ FileAt(t).rows[a][snp_col] = FileAt(t).rows[b][snp_col]
          /\ FileAt(t).rows[a][snp_col] \in CommonIds

C7_DuplicateIdsFatal ==
    HasDuplicateIds => (written = 0 /\ (pc = "exit" => exit_code # 0))

\* ----------------------------------------------------------------------
\* C8: an input file with a missing P-value makes the run fail without output
\* (stated for a row whose identifier every file has).
HasMissingP ==
    /\ AllSchemaValid
    /\ \A t \in Traits : UniqueIds(FileAt(t))
    /\ \A t \in Traits : \A r \in 1..Len(FileAt(t).rows) :
          FileAt(t).rows[r][p_col] >= 0 \/ FileAt(t).rows[r][p_col] = PNaN
    /\ \E t \in Traits : \E r \in 1..Len(FileAt(t).rows) :
          /\ FileAt(t).rows[r][p_col] = PNaN
          /\ FileAt(t).rows[r][snp_col] \in CommonIds

C8_MissingPFatal ==
    HasMissingP => (written = 0 /\ (pc = "exit" => exit_code # 0))

\* ----------------------------------------------------------------------
\* C9: the output is written at most once, as the last step of a run that loaded
\* every file, passed the denominator check, joined and scored; a run that ends
\* on an error, or whose input has an unreadable file or a missing column, exits
\* non-zero with nothing written; exit code 0 comes only with the output written.
C9_NoPartialResults ==
    /\ written <= 1
    /\ written = 1 =>
          /\ pc = "exit" /\ exit_code = 0 /\ err = "none"
          /\ Len(loaded_data) = NumTraits
          /\ total_weight_denom # FInt(0)
          /\ merged_df.kind = "frame"
          /\ k > NumTraits /\ j > NumTraits
    /\ written = 0 => output = <<>>
    /\ err # "none" => (pc = "exit" /\ exit_code > 0 /\ written = 0)
    /\ pc = "exit" => exit_code # Running
    /\ exit_code = 0 => written = 1
    /\ ~AllSchemaValid => (written = 0 /\ exit_code # 0)

\* a run ended on an error after it had loaded a file
C9_Witness ==
    /\ Failed
    /\ err # "none"
    /\ Len(loaded_data) >= 1
    /\ written = 0

\* ----------------------------------------------------------------------
\* C10: for any two valid input paths, also two of the same stem or the same path
\* twice, the run completes with one weighted term per listed file.
C10_TraitIdentity ==
    (ValidInput /\ NumTraits = 2 /\ pc = "exit" /\ err # "IOError") =>
        /\ exit_code = 0
        /\ Len(normalized_w) = 2

====
